---------------------------- MODULE Spec2Model ----------------------------
(***************************************************************************)
(* Model of src/script.py: a command-line pipeline that reads a text file, *)
(* asks a text2text pipeline for candidate questions, keeps the ones an    *)
(* extractive QA pipeline can answer, echoes them and writes them to a     *)
(* file.  The four functions (generate_questions, filter_answerable_       *)
(* questions, write_questions, main) are modelled statement by statement;  *)
(* the transformers pipelines, torch and the file system are the           *)
(* environment and are modelled as nondeterministic outcomes.              *)
(*                                                                         *)
(* Strings that the code only moves around (questions, console lines, the  *)
(* output file) are TLA+ strings.  Strings the code inspects with strip()  *)
(* (the input text, a QA answer) are sequences of one-character strings.   *)
(***************************************************************************)
EXTENDS Integers, Sequences, FiniteSets, TLC

(***************************************************************************)
(* Bounds of the model.                                                    *)
(***************************************************************************)
\* largest --num_questions explored (must exceed MinBeams so that
\* max(num_questions, 4) takes both branches)
MaxQuestions == 5
\* largest --max_tokens explored
MaxTokens == 1
\* longest question list handed directly to filter_answerable_questions
\* or write_questions by a caller other than main
MaxDirect == 2

\* script.py:63  num_beams = max(num_questions, 4)
MinBeams == 4

(***************************************************************************)
(* Value domains.                                                          *)
(***************************************************************************)
\* candidate question strings the generation model may return
Questions == {"a?", "b?"}

\* str.strip() without arguments removes these from both ends
Whitespace == {" ", "\n", "\t"}

\* contents an input file may decode to
Texts == {<<>>, <<" ", "\n">>, <<"P", " ">>}

\* answers the QA model may put under result["answer"]
Answers == {<<>>, <<" ">>, <<" ", "P", "\n">>}

\* values of --num_questions and --max_tokens (type=int accepts negatives)
NumQuestionsArgs == -1 .. MaxQuestions
MaxTokensArgs == 0 .. MaxTokens

SeqsOfLen(S, n) == [1 .. n -> S]
SeqsUpTo(S, n) == UNION {SeqsOfLen(S, k) : k \in 0 .. n}

(***************************************************************************)
(* Python exceptions: the part of the builtin class hierarchy that the     *)
(* except clauses of script.py discriminate on.                            *)
(***************************************************************************)
Parent(cls) ==
    CASE cls = "UnicodeDecodeError" -> "ValueError"
      [] cls = "FileNotFoundError"  -> "OSError"
      [] cls = "PermissionError"    -> "OSError"
      [] cls = "ValueError"         -> "Exception"
      [] cls = "OSError"            -> "Exception"
      [] cls = "RuntimeError"       -> "Exception"
      [] OTHER                      -> "BaseException"

RECURSIVE IsInstance(_, _)
IsInstance(cls, base) ==
    IF cls = base THEN TRUE
    ELSE IF cls = "BaseException" THEN FALSE
    ELSE IsInstance(Parent(cls), base)

Exc(cls, msg) == [cls |-> cls, msg |-> msg]
NoExc == Exc("", "")

\* open(file_path, "r", encoding="utf-8") / .read() failures (script.py:16-21)
ReadErrors ==
    { Exc("FileNotFoundError", "No such file or directory"),
      Exc("PermissionError", "Permission denied"),
      Exc("UnicodeDecodeError", "invalid start byte") }

\* failures of pipeline(...) construction or of a pipeline call that come
\* from the environment: weights missing, out of memory, bad model input
ModelFaults ==
    { Exc("OSError", "cannot load model"),
      Exc("ValueError", "model rejected the input") }

\* open(output_file, "w") failure: the file or its directory is not writable
WriteError == Exc("PermissionError", "Permission denied: output_file")

(***************************************************************************)
(* Pure helpers.                                                           *)
(***************************************************************************)
RECURSIVE LStrip(_)
LStrip(s) ==
    IF s = <<>> THEN <<>>
    ELSE IF Head(s) \in Whitespace THEN LStrip(Tail(s))
    ELSE s

RECURSIVE RStrip(_)
RStrip(s) ==
    IF s = <<>> THEN <<>>
    ELSE IF s[Len(s)] \in Whitespace THEN RStrip(SubSeq(s, 1, Len(s) - 1))
    ELSE s

\* str.strip()
Strip(s) == RStrip(LStrip(s))

\* dict.get(key, default)
DictGet(d, key, default) == IF key \in DOMAIN d THEN d[key] ELSE default

Max(a, b) == IF a >= b THEN a ELSE b

(***************************************************************************)
(* State.                                                                  *)
(***************************************************************************)
VARIABLES
    pc,                    \* statement about to execute
    entry,                 \* function the outermost caller invoked
    argv,                  \* main: args.num_questions, args.max_tokens
    text,                  \* main: text
    questions,             \* main: questions
    answerable_questions,  \* main: answerable_questions
    i,                     \* main: enumerate index of the print loop
    gen,                   \* frame of generate_questions
    flt,                   \* frame of filter_answerable_questions
    wr,                    \* frame of write_questions
    exc,                   \* exception in flight
    outFile,               \* the file at output_file
    fileAtStart,           \* outFile when the current call began
    console,               \* lines printed to stdout
    events,                \* external effects of the current call, in order
    ret,                   \* how the outermost call ended
    status                 \* process exit status (-1: none yet)

vars == <<pc, entry, argv, text, questions, answerable_questions, i, gen, flt,
          wr, exc, outFile, fileAtStart, console, events, ret, status>>

NoFile == [exists |-> FALSE, data |-> ""]
File(data) == [exists |-> TRUE, data |-> data]

NoRet == [kind |-> "none", exc |-> NoExc, value |-> <<>>]
Returned(v) == [kind |-> "return", exc |-> NoExc, value |-> v]
Raised(e) == [kind |-> "raise", exc |-> e, value |-> <<>>]

NoGen == [text |-> <<>>, num_questions |-> 0, max_tokens |-> 0, device |-> -1,
          num_beams |-> 0, output |-> <<>>]
Unloaded == [kind |-> "unloaded"]
NoFlt == [questions |-> <<>>, context |-> <<>>, device |-> -1,
          qa |-> [q \in Questions |-> Unloaded], answerable |-> <<>>, idx |-> 1]
NoWr == [questions |-> <<>>, idx |-> 1]

\* what the output file may hold before the program is started
PriorFiles == {NoFile, File("old\n")}

(***************************************************************************)
(* The environment: the transformers pipelines and the accelerator probe.  *)
(***************************************************************************)
\* torch.cuda.is_available() (script.py:62, 91)
CudaAvailable == BOOLEAN

\* device = 0 if torch.cuda.is_available() else -1
Device(available) == IF available THEN 0 ELSE -1

\* pipeline(...) either yields a pipeline or fails while loading the model
LoadOutcomes ==
    {[kind |-> "ok", exc |-> NoExc]} \cup
    {[kind |-> "raise", exc |-> e] : e \in ModelFaults}

\* qg_pipeline(prompt, max_new_tokens=, num_return_sequences=): beam search
\* returns num_return_sequences dicts {"generated_text": ...}, provided that
\* many beams exist; generate() rejects num_return_sequences > num_beams with
\* a ValueError.  Independently of its arguments the call may fail.
QgOutcomes(num_beams, num_return_sequences, max_new_tokens) ==
    IF num_return_sequences > num_beams
    THEN {[kind |-> "raise", fault |-> FALSE, value |-> <<>>,
           exc |-> Exc("ValueError", "num_return_sequences > num_beams")]}
    ELSE {[kind |-> "ok", fault |-> FALSE, exc |-> NoExc,
           value |-> [k \in 1 .. num_return_sequences |->
                         [generated_text |-> s[k]]]] :
              s \in SeqsOfLen(Questions, num_return_sequences)}
         \cup
         {[kind |-> "raise", fault |-> TRUE, value |-> <<>>, exc |-> e] :
              e \in ModelFaults}

\* qa_pipeline(question=q, context=context): a dict with or without an
\* "answer" entry, or an exception
QAResults == {[score |-> 0]} \cup {[score |-> 1, answer |-> a] : a \in Answers}
QAOutcomes ==
    {[kind |-> "raise", exc |-> Exc("ValueError", "bad question")]} \cup
    {[kind |-> "ok", result |-> r] : r \in QAResults}
QAModels == [Questions -> QAOutcomes]

(***************************************************************************)
(* Decisions of the code, one operator per condition.                      *)
(***************************************************************************)
\* the check with the max_tokens test forgotten
InvalidArgsCountOnly(num_questions, max_tokens) == num_questions < 1

\* script.py:59
InvalidArgs(num_questions, max_tokens) == num_questions < 1 \/ max_tokens < 1
InvalidArgsError == Exc("ValueError", "num_questions and max_tokens must be >= 1")

\* a fixed beam count, not widened to the requested number of questions
NumBeamsFixed(num_questions) == MinBeams

\* script.py:63
NumBeams(num_questions) == Max(num_questions, MinBeams)

\* script.py:77
GeneratedTexts(output) == [k \in 1 .. Len(output) |-> output[k].generated_text]

\* the answer tested without strip()
HasAnswerUntrimmed(result) == DictGet(result, "answer", <<>>) # <<>>

\* script.py:102-103
HasAnswer(result) == Strip(DictGet(result, "answer", <<>>)) # <<>>

\* the loop body without its try / except
FilterCatchesNone(e) == FALSE

\* script.py:105  except Exception
FilterCatches(e) == IsInstance(e.cls, "Exception")

\* script.py:143  except Exception
MainCatchesRead(e) == IsInstance(e.cls, "Exception")

\* the emptiness test without strip()
IsEmptyString(t) == t = <<>>

\* script.py:147  not text.strip()
IsBlank(t) == Strip(t) = <<>>

\* except Exception in place of except ValueError
MainCatchesAnyException(e) == IsInstance(e.cls, "Exception")

\* script.py:155  except ValueError
MainCatchesGen(e) == IsInstance(e.cls, "ValueError")

\* open(output_file, "a"): creates, but keeps what is there
OpenForAppend(f) == File(f.data)

\* script.py:38  open(output_file, "w") truncates or creates
OpenForWrite(f) == File("")

\* the write without the newline
WriteLineNoNewline(q) == q

\* script.py:40
WriteLine(q) == q \o "\n"

\* enumerate without the start index 1
ConsoleLineZeroBased(n, q) == "Question " \o ToString(n - 1) \o ": " \o q

\* script.py:162
ConsoleLine(n, q) == "Question " \o ToString(n) \o ": " \o q

\* script.py:144, 148, 156
ReadDiag(e) == "Error reading file: " \o e.msg
EmptyDiag == "Error: input file is empty."
GenDiag(e) == "Error generating questions: " \o e.msg

\* the diagnostic printed, the exit forgotten
AfterEmptyDiagNoExit == "main_gen"

\* script.py:149  exit(1) after the empty-input diagnostic
AfterEmptyDiag == "exit1"

(***************************************************************************)
(* Initial state and the callers.  main is the process entry point; the    *)
(* other three functions are also importable and may be called directly.   *)
(***************************************************************************)
Init ==
    /\ pc = "idle"
    /\ entry = "none"
    /\ argv = [num_questions |-> 0, max_tokens |-> 0]
    /\ text = <<>>
    /\ questions = <<>>
    /\ answerable_questions = <<>>
    /\ i = 1
    /\ gen = NoGen
    /\ flt = NoFlt
    /\ wr = NoWr
    /\ exc = NoExc
    /\ outFile \in PriorFiles
    /\ fileAtStart = outFile
    /\ console = <<>>
    /\ events = <<>>
    /\ ret = NoRet
    /\ status = -1

\* a fresh call: nothing printed, nothing raised, nothing returned yet
Begin(fn) ==
    /\ entry' = fn
    /\ exc' = NoExc
    /\ fileAtStart' = outFile
    /\ console' = <<>>
    /\ events' = <<>>
    /\ ret' = NoRet
    /\ status' = -1

\* python script.py --text_file F --num_questions n --max_tokens m
CallMain ==
    /\ pc = "idle"
    /\ \E n \in NumQuestionsArgs, m \in MaxTokensArgs :
          argv' = [num_questions |-> n, max_tokens |-> m]
    /\ Begin("main")
    /\ pc' = "main_read"
    /\ UNCHANGED <<text, questions, answerable_questions, i, gen, flt, wr, outFile>>

\* generate_questions(t, n, m) called directly
CallGenerate ==
    /\ pc = "idle"
    /\ \E t \in Texts, n \in NumQuestionsArgs, m \in MaxTokensArgs :
          gen' = [NoGen EXCEPT !.text = t, !.num_questions = n, !.max_tokens = m]
    /\ Begin("generate")
    /\ pc' = "g_check"
    /\ UNCHANGED <<argv, text, questions, answerable_questions, i, flt, wr, outFile>>

\* filter_answerable_questions(qs, ctx) called directly
CallFilter ==
    /\ pc = "idle"
    /\ \E qs \in SeqsUpTo(Questions, MaxDirect), ctx \in Texts :
          flt' = [NoFlt EXCEPT !.questions = qs, !.context = ctx]
    /\ Begin("filter")
    /\ pc' = "f_probe"
    /\ UNCHANGED <<argv, text, questions, answerable_questions, i, gen, wr, outFile>>

\* write_questions(qs, path) called directly, any number of times in a row
CallWrite ==
    /\ pc = "idle" \/ (pc = "done" /\ entry = "write")
    /\ \E qs \in SeqsUpTo(Questions, MaxDirect) : wr' = [questions |-> qs, idx |-> 1]
    /\ Begin("write")
    /\ pc' = "w_open"
    /\ UNCHANGED <<argv, text, questions, answerable_questions, i, gen, flt, outFile>>

(***************************************************************************)
(* generate_questions (script.py:43-77)                                    *)
(***************************************************************************)
\* an exception leaves generate_questions: into main's try (151-157) or out
\* to the direct caller
GenRaise(e) ==
    /\ exc' = e
    /\ pc' = IF entry = "main" THEN "main_gen_except" ELSE "done"
    /\ ret' = IF entry = "main" THEN ret ELSE Raised(e)

\* 59-60
GCheck ==
    /\ pc = "g_check"
    /\ IF InvalidArgs(gen.num_questions, gen.max_tokens)
       THEN GenRaise(InvalidArgsError)
       ELSE pc' = "g_probe" /\ UNCHANGED <<exc, ret>>
    /\ UNCHANGED <<entry, argv, text, questions, answerable_questions, i, gen,
                   flt, wr, outFile, fileAtStart, console, events, status>>

\* 62-63
GProbe ==
    /\ pc = "g_probe"
    /\ \E available \in CudaAvailable :
          gen' = [gen EXCEPT !.device = Device(available),
                             !.num_beams = NumBeams(gen.num_questions)]
    /\ events' = Append(events, "qg_probe")
    /\ pc' = "g_load"
    /\ UNCHANGED <<entry, argv, text, questions, answerable_questions, i, flt,
                   wr, exc, outFile, fileAtStart, console, ret, status>>

\* 65-70
GLoad ==
    /\ pc = "g_load"
    /\ \E o \in LoadOutcomes :
          IF o.kind = "ok"
          THEN /\ events' = Append(events, "qg_load")
               /\ pc' = "g_call"
               /\ UNCHANGED <<exc, ret>>
          ELSE /\ events' = events \o <<"qg_load", "fault">>
               /\ GenRaise(o.exc)
    /\ UNCHANGED <<entry, argv, text, questions, answerable_questions, i, gen,
                   flt, wr, outFile, fileAtStart, console, status>>

\* 72-76
GCall ==
    /\ pc = "g_call"
    /\ \E o \in QgOutcomes(gen.num_beams, gen.num_questions, gen.max_tokens) :
          /\ events' = events \o (IF o.fault THEN <<"qg_call", "fault">>
                                             ELSE <<"qg_call">>)
          /\ IF o.kind = "ok"
             THEN /\ gen' = [gen EXCEPT !.output = o.value]
                  /\ pc' = "g_return"
                  /\ UNCHANGED <<exc, ret>>
             ELSE /\ GenRaise(o.exc)
                  /\ UNCHANGED gen
    /\ UNCHANGED <<entry, argv, text, questions, answerable_questions, i, flt,
                   wr, outFile, fileAtStart, console, status>>

\* 77 (and the assignment of 152 when main is the caller)
GReturn ==
    /\ pc = "g_return"
    /\ IF entry = "main"
       THEN /\ questions' = GeneratedTexts(gen.output)
            /\ pc' = "main_filter"
            /\ UNCHANGED ret
       ELSE /\ ret' = Returned(GeneratedTexts(gen.output))
            /\ pc' = "done"
            /\ UNCHANGED questions
    /\ UNCHANGED <<entry, argv, text, answerable_questions, i, gen, flt, wr, exc,
                   outFile, fileAtStart, console, events, status>>

(***************************************************************************)
(* filter_answerable_questions (script.py:80-107)                          *)
(***************************************************************************)
\* an exception leaves filter_answerable_questions: main has no handler
\* around the call of line 159
FilterRaise(e) ==
    /\ exc' = e
    /\ pc' = IF entry = "main" THEN "crash" ELSE "done"
    /\ ret' = IF entry = "main" THEN ret ELSE Raised(e)

\* 91
FProbe ==
    /\ pc = "f_probe"
    /\ \E available \in CudaAvailable :
          flt' = [flt EXCEPT !.device = Device(available)]
    /\ events' = Append(events, "qa_probe")
    /\ pc' = "f_load"
    /\ UNCHANGED <<entry, argv, text, questions, answerable_questions, i, gen,
                   wr, exc, outFile, fileAtStart, console, ret, status>>

\* 92-98
FLoad ==
    /\ pc = "f_load"
    /\ \E o \in LoadOutcomes :
          IF o.kind = "ok"
          THEN /\ \E m \in QAModels :
                     flt' = [flt EXCEPT !.qa = m, !.answerable = <<>>, !.idx = 1]
               /\ events' = Append(events, "qa_load")
               /\ pc' = "f_loop"
               /\ UNCHANGED <<exc, ret>>
          ELSE /\ events' = events \o <<"qa_load", "fault">>
               /\ FilterRaise(o.exc)
               /\ UNCHANGED flt
    /\ UNCHANGED <<entry, argv, text, questions, answerable_questions, i, gen,
                   wr, outFile, fileAtStart, console, status>>

\* 99-106: one iteration of the loop
FIter ==
    /\ pc = "f_loop"
    /\ flt.idx <= Len(flt.questions)
    /\ LET q == flt.questions[flt.idx]
           o == flt.qa[q]
       IN  /\ events' = Append(events, "qa_call")
           /\ IF o.kind = "raise"
              THEN IF FilterCatches(o.exc)
                   THEN /\ flt' = [flt EXCEPT !.idx = @ + 1]
                        /\ UNCHANGED <<pc, exc, ret>>
                   ELSE /\ FilterRaise(o.exc)
                        /\ UNCHANGED flt
              ELSE /\ flt' = [flt EXCEPT
                                !.idx = @ + 1,
                                !.answerable = IF HasAnswer(o.result)
                                               THEN Append(@, q) ELSE @]
                   /\ UNCHANGED <<pc, exc, ret>>
    /\ UNCHANGED <<entry, argv, text, questions, answerable_questions, i, gen,
                   wr, outFile, fileAtStart, console, status>>

\* 107 (and the assignment of 159 when main is the caller)
FReturn ==
    /\ pc = "f_loop"
    /\ flt.idx > Len(flt.questions)
    /\ IF entry = "main"
       THEN /\ answerable_questions' = flt.answerable
            /\ i' = 1
            /\ pc' = "main_print"
            /\ UNCHANGED ret
       ELSE /\ ret' = Returned(flt.answerable)
            /\ pc' = "done"
            /\ UNCHANGED <<answerable_questions, i>>
    /\ UNCHANGED <<entry, argv, text, questions, gen, flt, wr, exc, outFile,
                   fileAtStart, console, events, status>>

(***************************************************************************)
(* write_questions (script.py:25-40)                                       *)
(***************************************************************************)
\* 38: open(output_file, "w")
WOpen ==
    /\ pc = "w_open"
    /\ \E writable \in BOOLEAN :
          IF writable
          THEN /\ outFile' = OpenForWrite(outFile)
               /\ events' = Append(events, "open_w")
               /\ pc' = "w_loop"
               /\ UNCHANGED <<exc, ret>>
          ELSE /\ events' = events \o <<"open_w", "fault">>
               /\ exc' = WriteError
               /\ pc' = IF entry = "main" THEN "crash" ELSE "done"
               /\ ret' = IF entry = "main" THEN ret ELSE Raised(WriteError)
               /\ UNCHANGED outFile
    /\ UNCHANGED <<entry, argv, text, questions, answerable_questions, i, gen,
                   flt, wr, fileAtStart, console, status>>

\* 39-40: one iteration of the loop
WWrite ==
    /\ pc = "w_loop"
    /\ wr.idx <= Len(wr.questions)
    /\ outFile' = [outFile EXCEPT !.data = @ \o WriteLine(wr.questions[wr.idx])]
    /\ wr' = [wr EXCEPT !.idx = @ + 1]
    /\ events' = Append(events, "write")
    /\ UNCHANGED <<pc, entry, argv, text, questions, answerable_questions, i,
                   gen, flt, exc, fileAtStart, console, ret, status>>

\* end of the with block: the file is closed and the function returns None
WReturn ==
    /\ pc = "w_loop"
    /\ wr.idx > Len(wr.questions)
    /\ IF entry = "main"
       THEN pc' = "main_return" /\ UNCHANGED ret
       ELSE pc' = "done" /\ ret' = Returned(<<>>)
    /\ UNCHANGED <<entry, argv, text, questions, answerable_questions, i, gen,
                   flt, wr, exc, outFile, fileAtStart, console, events, status>>

(***************************************************************************)
(* main (script.py:110-164)                                                *)
(***************************************************************************)
\* 141-143: read_text_file (6-22) inside try / except Exception
MainRead ==
    /\ pc = "main_read"
    /\ events' = Append(events, "read")
    /\ \/ \E t \in Texts :
             /\ text' = t
             /\ pc' = "main_check"
             /\ UNCHANGED exc
       \/ \E e \in ReadErrors :
             /\ exc' = e
             /\ pc' = IF MainCatchesRead(e) THEN "main_read_err" ELSE "crash"
             /\ UNCHANGED text
    /\ UNCHANGED <<entry, argv, questions, answerable_questions, i, gen, flt, wr,
                   outFile, fileAtStart, console, ret, status>>

\* 144
MainReadErr ==
    /\ pc = "main_read_err"
    /\ console' = Append(console, ReadDiag(exc))
    /\ pc' = "exit1"
    /\ UNCHANGED <<entry, argv, text, questions, answerable_questions, i, gen,
                   flt, wr, exc, outFile, fileAtStart, events, ret, status>>

\* 147
MainCheck ==
    /\ pc = "main_check"
    /\ pc' = IF IsBlank(text) THEN "main_empty_err" ELSE "main_gen"
    /\ UNCHANGED <<entry, argv, text, questions, answerable_questions, i, gen,
                   flt, wr, exc, outFile, fileAtStart, console, events, ret,
                   status>>

\* 148
MainEmptyErr ==
    /\ pc = "main_empty_err"
    /\ console' = Append(console, EmptyDiag)
    /\ pc' = AfterEmptyDiag
    /\ UNCHANGED <<entry, argv, text, questions, answerable_questions, i, gen,
                   flt, wr, exc, outFile, fileAtStart, events, ret, status>>

\* 152-154: the call of generate_questions
MainGen ==
    /\ pc = "main_gen"
    /\ gen' = [NoGen EXCEPT !.text = text,
                            !.num_questions = argv.num_questions,
                            !.max_tokens = argv.max_tokens]
    /\ pc' = "g_check"
    /\ UNCHANGED <<entry, argv, text, questions, answerable_questions, i, flt,
                   wr, exc, outFile, fileAtStart, console, events, ret, status>>

\* 155-156: except ValueError as ve
MainGenExcept ==
    /\ pc = "main_gen_except"
    /\ IF MainCatchesGen(exc)
       THEN /\ console' = Append(console, GenDiag(exc))
            /\ pc' = "exit1"
       ELSE /\ pc' = "crash"
            /\ UNCHANGED console
    /\ UNCHANGED <<entry, argv, text, questions, answerable_questions, i, gen,
                   flt, wr, exc, outFile, fileAtStart, events, ret, status>>

\* 145, 149, 157: exit(1)
Exit1 ==
    /\ pc = "exit1"
    /\ status' = 1
    /\ ret' = [kind |-> "exit", exc |-> NoExc, value |-> <<>>]
    /\ pc' = "done"
    /\ UNCHANGED <<entry, argv, text, questions, answerable_questions, i, gen,
                   flt, wr, exc, outFile, fileAtStart, console, events>>

\* an exception no handler of main catches: the interpreter prints a
\* traceback to stderr and the process ends with status 1
Crash ==
    /\ pc = "crash"
    /\ status' = 1
    /\ ret' = [kind |-> "crash", exc |-> exc, value |-> <<>>]
    /\ pc' = "done"
    /\ UNCHANGED <<entry, argv, text, questions, answerable_questions, i, gen,
                   flt, wr, exc, outFile, fileAtStart, console, events>>

\* 159: the call of filter_answerable_questions
MainFilter ==
    /\ pc = "main_filter"
    /\ flt' = [NoFlt EXCEPT !.questions = questions, !.context = text]
    /\ pc' = "f_probe"
    /\ UNCHANGED <<entry, argv, text, questions, answerable_questions, i, gen,
                   wr, exc, outFile, fileAtStart, console, events, ret, status>>

\* 161-162: one iteration of the print loop
MainPrint ==
    /\ pc = "main_print"
    /\ i <= Len(answerable_questions)
    /\ console' = Append(console, ConsoleLine(i, answerable_questions[i]))
    /\ events' = Append(events, "print")
    /\ i' = i + 1
    /\ UNCHANGED <<pc, entry, argv, text, questions, answerable_questions, gen,
                   flt, wr, exc, outFile, fileAtStart, ret, status>>

\* 164: the call of write_questions
MainWrite ==
    /\ pc = "main_print"
    /\ i > Len(answerable_questions)
    /\ wr' = [questions |-> answerable_questions, idx |-> 1]
    /\ pc' = "w_open"
    /\ UNCHANGED <<entry, argv, text, questions, answerable_questions, i, gen,
                   flt, exc, outFile, fileAtStart, console, events, ret, status>>

\* main returns; the interpreter exits with status 0
MainReturn ==
    /\ pc = "main_return"
    /\ status' = 0
    /\ ret' = Returned(<<>>)
    /\ pc' = "done"
    /\ UNCHANGED <<entry, argv, text, questions, answerable_questions, i, gen,
                   flt, wr, exc, outFile, fileAtStart, console, events>>

Next ==
    \/ CallMain \/ CallGenerate \/ CallFilter \/ CallWrite
    \/ GCheck \/ GProbe \/ GLoad \/ GCall \/ GReturn
    \/ FProbe \/ FLoad \/ FIter \/ FReturn
    \/ WOpen \/ WWrite \/ WReturn
    \/ MainRead \/ MainReadErr \/ MainCheck \/ MainEmptyErr \/ MainGen
    \/ MainGenExcept \/ Exit1 \/ Crash \/ MainFilter \/ MainPrint
    \/ MainWrite \/ MainReturn

Spec == Init /\ [][Next]_vars

(***************************************************************************)
(* Properties.  The definitions below restate what is claimed of the code  *)
(* in their own terms; none of them is used by the actions above.          *)
(***************************************************************************)
Tags == {events[k] : k \in 1 .. Len(events)}
\* the environment injected no failure (model load, model call, file open)
NoFault == "fault" \notin Tags
Count(seq, tag) == Cardinality({k \in 1 .. Len(seq) : seq[k] = tag})
Last(seq) == seq[Len(seq)]
NonBlank(s) == \E k \in 1 .. Len(s) : s[k] \notin {" ", "\n", "\t"}

\* the expected file content: every string followed by one newline
RECURSIVE JoinLines(_)
JoinLines(qs) ==
    IF qs = <<>> THEN "" ELSE Head(qs) \o "\n" \o JoinLines(Tail(qs))

\* the loaded QA model produces, for q, an answer that is non-empty after
\* trimming
Answered(q) ==
    /\ flt.qa[q].kind = "ok"
    /\ "answer" \in DOMAIN flt.qa[q].result
    /\ NonBlank(flt.qa[q].result.answer)

MainDone == entry = "main" /\ pc = "done"

\* C1: a run of main that ends with exit status 0 leaves the output file
\* holding exactly the generated questions that passed the filter, in
\* generation order, each followed by one newline, and nothing else
\* (nothing of what the file held before the run).
C1_OutputFileExact ==
    (MainDone /\ status = 0) =>
        outFile = File(JoinLines(SelectSeq(questions, Answered)))

C1_Witness ==
    /\ MainDone /\ status = 0
    /\ fileAtStart = File("old\n")
    /\ questions = <<"b?", "a?", "b?">>
    /\ outFile = File("b?\nb?\n")

\* C2: filter_answerable_questions returns the order-preserving subsequence
\* of its input made of the questions the QA model answers with a string
\* that is non-empty after trimming: nothing added, reordered or
\* deduplicated, and a question with an empty, whitespace-only, missing or
\* failed answer dropped.
C2_FilterIsSubsequence ==
    /\ (entry = "filter" /\ pc = "done" /\ ret.kind = "return") =>
           ret.value = SelectSeq(flt.questions, Answered)
    /\ (entry = "main" /\ pc = "main_print") =>
           answerable_questions = SelectSeq(questions, Answered)

C2_Witness ==
    /\ entry = "main" /\ pc = "main_print"
    /\ questions = <<"a?", "b?", "a?">>
    /\ flt.qa["b?"] = [kind |-> "ok", result |-> [score |-> 1, answer |-> <<" ">>]]
    /\ answerable_questions = <<"a?", "a?">>

FilterDone == entry = "filter" /\ pc = "done"

\* C3 as stated: filter_answerable_questions never raises an error to its
\* caller, failures while it sets up its QA model included.
C3_FilterNeverRaises == ~(FilterDone /\ ret.kind = "raise")

\* C3 amended: an exception the QA model raises on a question is swallowed,
\* the question is dropped and every remaining question is still processed;
\* the only errors the function raises to its caller are those of setting up
\* its QA pipeline (lines 91-96), raised before any question is processed.
C3_FilterRaisesOnlyFromSetup ==
    /\ (FilterDone /\ ret.kind = "raise") =>
           /\ events = <<"qa_probe", "qa_load", "fault">>
           /\ ret.exc \in ModelFaults
    /\ (FilterDone /\ NoFault) =>
           /\ ret.kind = "return"
           /\ Count(events, "qa_call") = Len(flt.questions)
           /\ \A k \in 1 .. Len(ret.value) : flt.qa[ret.value[k]].kind # "raise"
    /\ (entry = "main" /\ pc = "main_print") =>
           Count(events, "qa_call") = Len(questions)

C3_Witness ==
    /\ FilterDone /\ ret.kind = "return"
    /\ flt.questions = <<"a?", "b?">>
    /\ flt.qa["a?"].kind = "raise"
    /\ ret.value = <<"b?">>

\* C4: for num_questions = N >= 1 and max_tokens >= 1 and any text,
\* generate_questions returns exactly N strings, the generated texts in the
\* order the generation model returned them (unless the model itself fails).
C4_GenerateReturnsN ==
    /\ (entry = "generate" /\ pc = "done" /\ NoFault
          /\ gen.num_questions >= 1 /\ gen.max_tokens >= 1) =>
           /\ ret.kind = "return"
           /\ Len(ret.value) = gen.num_questions
           /\ \A k \in 1 .. gen.num_questions :
                 ret.value[k] = gen.output[k].generated_text
    /\ (entry = "main" /\ pc \in {"main_gen_except", "main_filter"} /\ NoFault
          /\ argv.num_questions >= 1 /\ argv.max_tokens >= 1) =>
           /\ pc = "main_filter"
           /\ Len(questions) = argv.num_questions
           /\ \A k \in 1 .. argv.num_questions :
                 questions[k] = gen.output[k].generated_text

C4_Witness ==
    /\ entry = "generate" /\ pc = "done" /\ ret.kind = "return"
    /\ gen.num_questions = MinBeams + 1
    /\ gen.text = <<>>
    /\ Len(ret.value) = MinBeams + 1
    /\ ret.value[1] = ret.value[2]

\* C5: with num_questions < 1 or max_tokens < 1 generate_questions raises
\* the invalid-argument error before any accelerator probe, pipeline
\* construction or generation call; with both >= 1 its check raises nothing
\* (any error then comes after the probe, from the model).
C5_InvalidArgsRaiseFirst ==
    /\ (entry = "generate" /\ pc = "done"
          /\ (gen.num_questions < 1 \/ gen.max_tokens < 1)) =>
           /\ ret = Raised(Exc("ValueError",
                               "num_questions and max_tokens must be >= 1"))
           /\ events = <<>>
    /\ (entry = "generate" /\ pc = "done"
          /\ gen.num_questions >= 1 /\ gen.max_tokens >= 1
          /\ ret.kind = "raise") =>
           /\ Len(events) >= 2 /\ events[1] = "qg_probe"
           /\ ret.exc.msg # "num_questions and max_tokens must be >= 1"
    /\ (entry = "main" /\ pc = "main_gen_except"
          /\ (argv.num_questions < 1 \/ argv.max_tokens < 1)) =>
           /\ events = <<"read">>
           /\ exc.msg = "num_questions and max_tokens must be >= 1"

C5_Witness ==
    /\ entry = "generate" /\ pc = "done"
    /\ gen.num_questions = MaxQuestions /\ gen.max_tokens = 0
    /\ ret.kind = "raise" /\ ret.exc.cls = "ValueError"
    /\ events = <<>>

\* the three failing cases named by C6, told from main's own variables
ReadFailed == entry = "main" /\ events = <<"read">> /\ exc \in ReadErrors
EmptyInput ==
    /\ entry = "main" /\ pc \notin {"main_read", "main_check"}
    /\ exc \notin ReadErrors /\ ~NonBlank(text)
BadArgument ==
    /\ entry = "main" /\ exc \notin ReadErrors /\ NonBlank(text)
    /\ pc \in {"exit1", "done"}
    /\ (argv.num_questions < 1 \/ argv.max_tokens < 1)
FullSuccess ==
    /\ NoFault /\ NonBlank(text)
    /\ Count(events, "open_w") = 1
    /\ Count(events, "write") = Len(answerable_questions)

\* C6: main ends with status 0 exactly on full success; a failed read, an
\* empty or whitespace-only text and an invalid num_questions / max_tokens
\* each end it with a non-zero status, after exactly one diagnostic line
\* has been printed and with no later stage run.
C6_ExitStatus ==
    /\ MainDone => (status = 0 <=> FullSuccess)
    /\ (ReadFailed /\ pc \in {"exit1", "done"}) =>
           console = <<"Error reading file: " \o exc.msg>>
    /\ EmptyInput =>
           /\ pc \in {"main_empty_err", "exit1", "done"}
           /\ pc # "main_empty_err" => console = <<"Error: input file is empty.">>
           /\ events = <<"read">>
    /\ BadArgument =>
           /\ console = <<"Error generating questions: "
                            \o "num_questions and max_tokens must be >= 1">>
           /\ events = <<"read">>
    /\ ((ReadFailed \/ EmptyInput \/ BadArgument) /\ pc = "done") =>
           status = 1 /\ ret.kind = "exit"

C6_Witness ==
    /\ MainDone /\ status = 1 /\ ret.kind = "exit"
    /\ text = <<" ", "\n">>
    /\ console = <<"Error: input file is empty.">>

WriteDone == entry = "write" /\ pc = "done" /\ ret.kind = "return"

\* C7: write_questions overwrites: after a successful call the file holds
\* exactly the strings of that call, each followed by a newline, in order,
\* whatever it held before (so an empty sequence leaves an existing empty
\* file, and writing a sequence over itself changes nothing).
C7_WriteOverwrites ==
    /\ WriteDone => outFile = File(JoinLines(wr.questions))
    /\ (WriteDone /\ wr.questions = <<>>) => (outFile.exists /\ outFile.data = "")
    /\ (WriteDone /\ fileAtStart = File(JoinLines(wr.questions))) =>
           outFile = fileAtStart

C7_Witness ==
    /\ WriteDone
    /\ fileAtStart = File("a?\nb?\n")
    /\ wr.questions = <<"b?">>
    /\ outFile = File("b?\n")

\* the run of main ended in the generation step, in the model rather than
\* in the argument check
ModelFailedInGen ==
    /\ MainDone /\ Len(events) >= 2
    /\ Last(events) = "fault"
    /\ events[Len(events) - 1] \in {"qg_load", "qg_call"}
ValueErrorFamily == {"ValueError", "UnicodeDecodeError"}

\* C8 as stated: the only generation failure main catches is the invalid
\* argument condition; a failure raised by the generation model itself is
\* never handled and always ends main as a crash.
C8_ModelFailureAlwaysCrashes == ModelFailedInGen => ret.kind = "crash"

\* C8 amended: main catches every ValueError that leaves generate_questions,
\* the argument check's and any ValueError raised by the generation pipeline
\* alike, and handles it by diagnostic and exit(1); a generation failure of
\* any other class is not caught and ends main as a crash with nothing
\* printed to stdout.
C8_OnlyValueErrorCaught ==
    /\ (ModelFailedInGen /\ exc.cls \in ValueErrorFamily) =>
           /\ ret.kind = "exit"
           /\ console = <<"Error generating questions: " \o exc.msg>>
    /\ (ModelFailedInGen /\ exc.cls \notin ValueErrorFamily) =>
           /\ ret.kind = "crash" /\ ret.exc = exc
           /\ console = <<>>
    /\ (MainDone /\ events = <<"read">> /\ exc # NoExc /\ exc \notin ReadErrors) =>
           ret.kind = "exit"

C8_Witness ==
    /\ ModelFailedInGen
    /\ exc = Exc("ValueError", "model rejected the input")
    /\ ret.kind = "exit"
    /\ status = 1

\* the console lines claimed for a list of surviving questions
NumberedLines(qs) ==
    [k \in 1 .. Len(qs) |-> "Question " \o ToString(k) \o ": " \o qs[k]]
PrintsPrecedeOpen ==
    \A a, b \in 1 .. Len(events) :
        (events[a] = "print" /\ events[b] = "open_w") => a < b
QaLoaded ==
    \E k \in 1 .. Len(events) :
        events[k] = "qa_load" /\ (k = Len(events) \/ events[k + 1] # "fault")
FilterReturnedInMain ==
    /\ entry = "main"
    /\ pc \in {"main_print", "w_open", "w_loop", "main_return", "crash", "done"}
    /\ QaLoaded

\* C9 as stated: in every run of main that reaches filtering the console
\* gets one numbered line per survivor before the file is opened, and when
\* nothing survives the output file is nevertheless created, empty.
C9_EmptyFileAlwaysCreated ==
    (FilterReturnedInMain /\ pc = "done") =>
        /\ console = NumberedLines(answerable_questions)
        /\ PrintsPrecedeOpen
        /\ answerable_questions = <<>> => outFile = File("")

\* C9 amended: in every run of main in which the filter returns, the console
\* gets exactly one line "Question <n>: <text>" per surviving question,
\* numbered 1..k in filter order, all printed before the output file is
\* opened; when nothing survives no such line is printed and the output file
\* is created empty provided it can be opened for writing - if the open
\* fails main crashes and the file is left as it was.
C9_ConsoleThenFile ==
    /\ (FilterReturnedInMain /\ pc # "main_print") =>
           /\ console = NumberedLines(answerable_questions)
           /\ Count(events, "print") = Len(answerable_questions)
           /\ PrintsPrecedeOpen
    /\ (FilterReturnedInMain /\ pc = "w_open") => outFile = fileAtStart
    /\ (FilterReturnedInMain /\ pc = "done" /\ answerable_questions = <<>>) =>
           /\ console = <<>>
           /\ status = 0 => outFile = File("")
           /\ status # 0 => (outFile = fileAtStart /\ ret.kind = "crash"
                               /\ Last(events) = "fault")
           /\ (status = 0) <=> NoFault
    /\ (MainDone /\ "qa_probe" \in Tags /\ ~QaLoaded) =>
           console = <<>> /\ outFile = fileAtStart /\ ret.kind = "crash"

C9_Witness ==
    /\ FilterReturnedInMain /\ pc = "done" /\ status = 0
    /\ questions = <<"a?", "b?">>
    /\ answerable_questions = <<>>
    /\ fileAtStart = NoFile
    /\ outFile = File("")

C9_WitnessLines ==
    /\ FilterReturnedInMain /\ pc = "done" /\ status = 0
    /\ console = <<"Question 1: b?", "Question 2: a?">>

\* how a run of main that never got to filtering ended
EndedAtRead == MainDone /\ ret.kind = "exit" /\ exc \in ReadErrors
EndedAtEmpty == MainDone /\ exc \notin ReadErrors /\ ~NonBlank(text)
EndedAtGen ==
    /\ MainDone /\ NonBlank(text) /\ exc # NoExc
    /\ \/ argv.num_questions < 1 \/ argv.max_tokens < 1
       \/ ModelFailedInGen
QaTags == {"qa_probe", "qa_load", "qa_call"}
QgTags == {"qg_probe", "qg_load", "qg_call"}

\* C10: a run of main that ends at the read, at the empty-input check or in
\* the generation step (handled or not) leaves the output file exactly as it
\* was and never loads or calls the QA model; when it ends at the read or at
\* the empty-input check the generation model is never loaded either.
C10_NoWriteBeforeWriter ==
    /\ (EndedAtRead \/ EndedAtEmpty \/ EndedAtGen) =>
           /\ outFile = fileAtStart
           /\ Tags \cap QaTags = {}
           /\ "open_w" \notin Tags
           /\ status = 1
    /\ (EndedAtRead \/ EndedAtEmpty) => Tags \cap QgTags = {}
    /\ (entry = "main" /\ "open_w" \notin Tags) => outFile = fileAtStart

C10_Witness ==
    /\ EndedAtGen /\ ret.kind = "crash"
    /\ fileAtStart = File("old\n")
    /\ outFile = File("old\n")
    /\ events = <<"read", "qg_probe", "qg_load", "qg_call", "fault">>

=============================================================================
